---- MODULE Spec2Model ----
(***************************************************************************)
(* Model of setm::minimax, setm::savage and setm::hurwicz                  *)
(* (decision_criteria.cpp: std::array variant with an accumulator loop in  *)
(*  hurwicz; decision_criterion.cpp: generic-range variant).               *)
(*                                                                         *)
(* Numbers.  The element type T is modelled by the integers.  A Hurwicz    *)
(* coefficient is the rational coefficient/Den, held as its numerator, so  *)
(* every Hurwicz value in the model is the exact value multiplied by Den:  *)
(*   Den * (a*min + (1-a)*max) = n*min + (Den-n)*max   with a = n/Den.     *)
(* Floating-point rounding is outside the model.                           *)
(*                                                                         *)
(* Objects.  C++ aliasing is made explicit: mem maps an object name to the *)
(* matrix it holds.  "caller" is main's profits; "param" is the by-value   *)
(* parameter of savage.  Matrices are indexed from 0 as in the source.     *)
(***************************************************************************)
EXTENDS Integers, FiniteSets, Sequences, TLC

\* ------------------------------------------------------------------ bounds
\* MaxCells: most entries of a matrix; MaxVal: largest entry (the smallest is
\* -1); Den: denominator of the coefficients
MaxCells == 4
MaxVal == 0
Den == 2

Vals == (0 - 1)..MaxVal
\* coefficients n/Den from -1/Den to 1 + 1/Den: inside and outside [0,1]
Coefs == (0 - 1)..(Den + 1)

\* every shape rows x columns with at least one and at most MaxCells entries
Shapes == { s \in (1..MaxCells) \X (1..MaxCells) : s[1] * s[2] <= MaxCells }

Matrices ==
  UNION { [0..(s[1] - 1) -> [0..(s[2] - 1) -> Vals]] : s \in Shapes }

VARIABLES
  mem,            \* object name -> matrix
  orig,           \* history: the matrix literal main was built with
  coefficient,    \* numerator of the Hurwicz coefficient
  mpc, minimax_value,
  spc, col, row, max_value, savage_value,
  hpc, hurwicz_value

vars == <<mem, orig, coefficient, mpc, minimax_value,
          spc, col, row, max_value, savage_value, hpc, hurwicz_value>>

\* --------------------------------------------------------------- helpers
rows(m)    == Cardinality(DOMAIN m)
columns(m) == Cardinality(DOMAIN m[0])

\* numeric_limits<T>::lowest(): the least value of the model's number type
Lowest == 0 - 1000000

\* std::max(a, b): b only when a < b
StdMax(a, b) == IF a < b THEN b ELSE a

\* std::ranges::max over a range f indexed 0..n-1: left-to-right scan that
\* replaces the candidate only by a strictly larger element
RECURSIVE MaxScan(_, _, _, _)
MaxScan(f, n, i, best) ==
  IF i >= n THEN best
  ELSE MaxScan(f, n, i + 1, IF best < f[i] THEN f[i] ELSE best)

RangesMax(f) == MaxScan(f, Cardinality(DOMAIN f), 1, f[0])

\* std::ranges::min, *std::ranges::min_element: replaces the candidate only
\* by a strictly smaller element
RECURSIVE MinScan(_, _, _, _)
MinScan(f, n, i, best) ==
  IF i >= n THEN best
  ELSE MinScan(f, n, i + 1, IF f[i] < best THEN f[i] ELSE best)

RangesMin(f) == MinScan(f, Cardinality(DOMAIN f), 1, f[0])

FirstElement(rw) == rw[0]
RangesMinElement(rw) == RangesMin(rw)
RangesMaxElement(rw) == RangesMax(rw)

\* ---------------------------------------------------------------- minimax
Minimax(profits) ==
  RangesMax([r \in DOMAIN profits |-> RangesMinElement(profits[r])])

\* ----------------------------------------------------------------- savage
\* the object that savage's parameter `profits` names: passed by value
SavageProfitsByRef == "caller"
SavageProfits == "param"

\* max over the rows of column c of the working matrix
ColumnMaxOfFirst(profits, c) ==
  RangesMax([r \in DOMAIN profits |-> profits[r][0]])
ColumnMax(profits, c) ==
  RangesMax([r \in DOMAIN profits |-> profits[r][c]])

\* profits[row][col] = max_value - profits[row][col]
SubtractReversed(profits, r, c, mx) ==
  [profits EXCEPT ![r][c] = profits[r][c] - mx]
SubtractRecomputed(profits, r, c, mx) ==
  [profits EXCEPT ![r][c] = ColumnMax(profits, c) - profits[r][c]]
SubtractAt(profits, r, c, mx) ==
  [profits EXCEPT ![r][c] = mx - profits[r][c]]

\* the inner row loop for one column, from row r on
RECURSIVE RowLoop(_, _, _, _)
RowLoop(profits, r, c, mx) ==
  IF r >= rows(profits) THEN profits
  ELSE RowLoop(SubtractAt(profits, r, c, mx), r + 1, c, mx)

\* the outer column loop, from column c on
RECURSIVE ColumnLoop(_, _)
ColumnLoop(profits, c) ==
  IF c >= columns(profits) THEN profits
  ELSE ColumnLoop(RowLoop(profits, 0, c, ColumnMax(profits, c)), c + 1)

SavageReturn(profits) ==
  RangesMin([r \in DOMAIN profits |-> RangesMaxElement(profits[r])])

Savage(profits) == SavageReturn(ColumnLoop(profits, 0))

\* ---------------------------------------------------------------- hurwicz
\* coefficient * min_outcome + (1 - coefficient) * max_outcome, times Den
HurwiczValueSwapped(n, min_outcome, max_outcome) ==
  (Den - n) * min_outcome + n * max_outcome
HurwiczValueNoComplement(n, min_outcome, max_outcome) ==
  n * min_outcome + Den * max_outcome
HurwiczValue(n, min_outcome, max_outcome) ==
  n * min_outcome + (Den - n) * max_outcome

HurwiczRow(rw, n) ==
  HurwiczValue(n, RangesMinElement(rw), RangesMaxElement(rw))

\* decision_criteria.cpp: running maximum started at lowest()
RECURSIVE HurwiczScan(_, _, _, _)
HurwiczScan(profits, n, i, acc) ==
  IF i >= rows(profits) THEN acc
  ELSE HurwiczScan(profits, n, i + 1, StdMax(acc, HurwiczRow(profits[i], n)))

HurwiczLoopFromZero(profits, n) == HurwiczScan(profits, n, 0, 0)
HurwiczLoop(profits, n) == HurwiczScan(profits, n, 0, Lowest)

\* decision_criterion.cpp: ranges::max over the transformed rows
HurwiczRange(rng, n) ==
  RangesMax([r \in DOMAIN rng |-> HurwiczRow(rng[r], n)])

\* ------------------------------------------------------------------- main
Init ==
  /\ orig \in Matrices
  /\ mem = [o \in {"caller", "param"} |-> IF o = "caller" THEN orig ELSE <<>>]
  /\ coefficient = 0
  /\ mpc = "call" /\ minimax_value = 0
  /\ spc = "call" /\ col = 0 /\ row = 0 /\ max_value = 0 /\ savage_value = 0
  /\ hpc = "call" /\ hurwicz_value = 0

MinimaxCall ==
  /\ mpc = "call"
  /\ minimax_value' = Minimax(mem["caller"])
  /\ mpc' = "done"
  /\ UNCHANGED <<mem, orig, coefficient, spc, col, row, max_value,
                 savage_value, hpc, hurwicz_value>>

\* decision_criteria.cpp's hurwicz
HurwiczCallArray ==
  /\ hpc = "call"
  /\ \E n \in Coefs :
       /\ coefficient' = n
       /\ hurwicz_value' = HurwiczLoop(mem["caller"], n)
  /\ hpc' = "done"
  /\ UNCHANGED <<mem, orig, mpc, minimax_value, spc, col, row, max_value,
                 savage_value>>

\* decision_criterion.cpp's hurwicz
HurwiczCallRange ==
  /\ hpc = "call"
  /\ \E n \in Coefs :
       /\ coefficient' = n
       /\ hurwicz_value' = HurwiczRange(mem["caller"], n)
  /\ hpc' = "done"
  /\ UNCHANGED <<mem, orig, mpc, minimax_value, spc, col, row, max_value,
                 savage_value>>

\* the argument is copied into the parameter object; col{ 0uz }
SavageCall ==
  /\ spc = "call"
  /\ mem' = [mem EXCEPT !["param"] = mem["caller"]]
  /\ col' = 0
  /\ spc' = "col"
  /\ UNCHANGED <<orig, coefficient, mpc, minimax_value, row,
                 max_value, savage_value, hpc, hurwicz_value>>

\* col < columns: compute max_value, row{ 0uz }; otherwise leave the loop
SavageColumn ==
  /\ spc = "col"
  /\ IF col < columns(mem[SavageProfits])
       THEN /\ max_value' = ColumnMax(mem[SavageProfits], col)
            /\ row' = 0
            /\ spc' = "row"
       ELSE /\ spc' = "ret"
            /\ UNCHANGED <<max_value, row>>
  /\ UNCHANGED <<mem, orig, coefficient, mpc, minimax_value, col,
                 savage_value, hpc, hurwicz_value>>

\* row < rows: one subtraction, ++row; otherwise ++col
SavageRow ==
  /\ spc = "row"
  /\ IF row < rows(mem[SavageProfits])
       THEN /\ mem' = [mem EXCEPT ![SavageProfits] =
                         SubtractAt(mem[SavageProfits], row, col, max_value)]
            /\ row' = row + 1
            /\ UNCHANGED <<col, spc>>
       ELSE /\ col' = col + 1
            /\ spc' = "col"
            /\ UNCHANGED <<mem, row>>
  /\ UNCHANGED <<orig, coefficient, mpc, minimax_value, max_value,
                 savage_value, hpc, hurwicz_value>>

SavageRet ==
  /\ spc = "ret"
  /\ savage_value' = SavageReturn(mem[SavageProfits])
  /\ spc' = "done"
  /\ UNCHANGED <<mem, orig, coefficient, mpc, minimax_value, col, row,
                 max_value, hpc, hurwicz_value>>

Next ==
  \/ MinimaxCall
  \/ HurwiczCallArray
  \/ HurwiczCallRange
  \/ SavageCall
  \/ SavageColumn
  \/ SavageRow
  \/ SavageRet

Spec == Init /\ [][Next]_vars

\* ------------------------------------------------ brute-force references
RefMax(S) == CHOOSE x \in S : \A y \in S : y <= x
RefMin(S) == CHOOSE x \in S : \A y \in S : x <= y

RowSet(m, r) == { m[r][c] : c \in DOMAIN m[r] }
ColSet(m, c) == { m[r][c] : r \in DOMAIN m }

RefMinimax(m) == RefMax({ RefMin(RowSet(m, r)) : r \in DOMAIN m })
RefMaximax(m) == RefMax({ RefMax(RowSet(m, r)) : r \in DOMAIN m })

RefRegret(m) ==
  [r \in DOMAIN m |-> [c \in DOMAIN m[r] |-> RefMax(ColSet(m, c)) - m[r][c]]]

RefSavage(m) ==
  RefMin({ RefMax(RowSet(RefRegret(m), r)) : r \in DOMAIN m })

\* Den * max over rows of (a*min + (1-a)*max), a = n/Den
RefHurwicz(m, n) ==
  RefMax({ n * RefMin(RowSet(m, r)) + (Den - n) * RefMax(RowSet(m, r)) :
           r \in DOMAIN m })

Perms(S) == Permutations(S)

Permute(m, rp, cp) ==
  [r \in DOMAIN m |-> [c \in DOMAIN m[0] |-> m[rp[r]][cp[c]]]]

AllDone == mpc = "done" /\ spc = "done" /\ hpc = "done"

\* ----------------------------------------------------------------- claims

\* C1: minimax returns the maximum over rows of the row minimum, as computed
\* by an independent brute-force reference over sets.
C1_MinimaxIsMaxOfRowMin ==
  mpc = "done" => minimax_value = RefMinimax(orig)

C1_Witness ==
  /\ mpc = "done"
  /\ rows(orig) = 2 /\ columns(orig) = 2
  /\ minimax_value # orig[0][0]
  /\ minimax_value # RefMaximax(orig)

C3_HurwiczContract ==
  /\ hpc = "done" => hurwicz_value = RefHurwicz(orig, coefficient)
  /\ hpc = "done" => HurwiczLoop(orig, coefficient) = HurwiczRange(orig, coefficient)

C3_Witness ==
  /\ hpc = "done"
  /\ coefficient > Den
  /\ rows(orig) = 2
  /\ hurwicz_value < 0

\* C4: the caller's matrix is never mutated, in any state of any of the three
\* functions, including every intermediate state of savage's loops.
C4_CallerMatrixUnchanged ==
  mem["caller"] = orig

C4_Witness ==
  /\ spc = "row" /\ row >= 1
  /\ mem["param"] # orig
  /\ mem["caller"] = orig

\* C5: however the three functions are interleaved, each returns what it
\* returns when run alone on the caller's matrix.
C5_InterleavingIndependent ==
  /\ mpc = "done" => minimax_value = Minimax(orig)
  /\ hpc = "done" =>
       /\ hurwicz_value = HurwiczLoop(orig, coefficient)
       /\ hurwicz_value = HurwiczRange(orig, coefficient)
  /\ spc = "done" => savage_value = Savage(orig)

C5_Witness ==
  /\ spc = "row" /\ row >= 1
  /\ ENABLED MinimaxCall /\ ENABLED HurwiczCallArray /\ ENABLED HurwiczCallRange
  /\ mem["param"] # orig
  /\ Minimax(mem["param"]) # Minimax(orig)
  /\ HurwiczRange(mem["param"], Den) # HurwiczRange(orig, Den)

\* C6: hurwicz with coefficient 1 is the maximum of the row minima (minimax),
\* with coefficient 0 the maximum of the row maxima.
C6_HurwiczBoundary ==
  hpc = "done" =>
    /\ coefficient = Den =>
         /\ hurwicz_value = Den * RefMinimax(orig)
         /\ hurwicz_value = Den * Minimax(orig)
    /\ coefficient = 0 => hurwicz_value = Den * RefMaximax(orig)

C6_Witness ==
  /\ hpc = "done" /\ coefficient = Den
  /\ rows(orig) = 2 /\ columns(orig) = 2
  /\ RefMinimax(orig) # RefMaximax(orig)

\* C7: permuting the rows and the columns of the matrix changes none of the
\* three results.
C7_PermutationInvariant ==
  AllDone =>
    \A rp \in Perms(DOMAIN orig) : \A cp \in Perms(DOMAIN orig[0]) :
      /\ Minimax(Permute(orig, rp, cp)) = minimax_value
      /\ Savage(Permute(orig, rp, cp)) = savage_value
      /\ HurwiczLoop(Permute(orig, rp, cp), coefficient) = hurwicz_value
      /\ HurwiczRange(Permute(orig, rp, cp), coefficient) = hurwicz_value

C7_Witness ==
  /\ AllDone
  /\ rows(orig) = 2 /\ columns(orig) = 2
  /\ \E rp \in Perms(DOMAIN orig) : \E cp \in Perms(DOMAIN orig[0]) :
       /\ Permute(orig, rp, cp) # orig
       /\ Permute(orig, rp, rp) # Permute(orig, rp, cp)
       /\ ColumnLoop(Permute(orig, rp, cp), 0) # ColumnLoop(orig, 0)

\* C8 as stated: on a 1x1 matrix [[x]] all three criteria return x.
C8_SingleElementAllReturnX ==
  (AllDone /\ rows(orig) = 1 /\ columns(orig) = 1) =>
    /\ minimax_value = orig[0][0]
    /\ savage_value = orig[0][0]
    /\ hurwicz_value = Den * orig[0][0]

\* C8 amended: on a 1x1 matrix [[x]] minimax returns x, hurwicz returns x for
\* every coefficient (exact arithmetic), and savage returns the regret 0.
C8_SingleElement ==
  (AllDone /\ rows(orig) = 1 /\ columns(orig) = 1) =>
    /\ minimax_value = orig[0][0]
    /\ savage_value = 0
    /\ hurwicz_value = Den * orig[0][0]

C8_Witness ==
  /\ AllDone /\ rows(orig) = 1 /\ columns(orig) = 1
  /\ orig[0][0] # 0
  /\ coefficient > Den

C10_LoopState ==
  spc \in {"col", "row", "ret"} =>
    \A r \in DOMAIN orig : \A c \in DOMAIN orig[0] :
      LET done == c < col \/ (c = col /\ spc = "row" /\ r < row) IN
        /\ mem["param"][r][c] =
             IF done THEN RefMax(ColSet(orig, c)) - orig[r][c] ELSE orig[r][c]
        /\ (spc = "row" /\ c = col) => max_value = RefMax(ColSet(orig, c))

C10_Step ==
  /\ spc = "col" => mem' = mem
  /\ (spc = "col" /\ spc' = "row") =>
       max_value' = RefMax(ColSet(mem["param"], col))
  /\ spc = "row" =>
       \A r \in DOMAIN orig : \A c \in DOMAIN orig[0] :
         (r # row \/ c # col) => mem'["param"][r][c] = mem["param"][r][c]

====
